---------------------------- MODULE Spec2Model ----------------------------
(***************************************************************************)
(* Model of src/background/Timer.js: the interval Timer, the PomodoroTimer *)
(* phase sequencer that owns one Timer at a time, and the                  *)
(* PersistentPomodoroTimer wrapper that rebuilds the sequencer whenever    *)
(* the settings change.                                                    *)
(*                                                                         *)
(* Representation.                                                         *)
(*  - A JavaScript value that may be null/undefined is a sequence: << >>   *)
(*    is null, <<v>> is the value v.                                       *)
(*  - Numbers of seconds (duration, remaining, elapsed, tick) are kept in  *)
(*    thousandths of a second, so (Date.now() - periodStartTime) / 1000    *)
(*    is exact; setTimeout's "seconds * 1000" is then the same integer.    *)
(*  - Timestamps are kept relative to the present instant: Date.now() is   *)
(*    DateNow == 0 and the passing of time (action Advance) moves every    *)
(*    stored timestamp and every pending callback's delay back by one      *)
(*    Quantum.  The code only ever uses differences of Date.now() values.  *)
(*  - The model keeps two Timer objects: the one the live sequencer owns   *)
(*    ("cur") and the one it replaced last ("old"), together with the      *)
(*    host's table of pending setTimeout/setInterval callbacks.            *)
(***************************************************************************)
EXTENDS Integers, Sequences, FiniteSets, TLC

(* ------------------------------ bounds -------------------------------- *)

\* clock steps per tick period: the clock advances by 60 s / StepsPerTick
StepsPerTick == 2
\* how many clock steps a due callback may be delayed by the host
MaxLateSteps == 1
\* largest long-break interval a settings object carries
MaxInterval == 2

(* --------------------------- program values --------------------------- *)

\* new Timer(..., 60): the sequencer's tick period in seconds
TickSeconds == 60

Stopped == "Stopped"
Running == "Running"
Paused == "Paused"
TimerState == {Stopped, Running, Paused}

Focus == "Focus"
ShortBreak == "ShortBreak"
LongBreak == "LongBreak"
Phase == {Focus, ShortBreak, LongBreak}
\* this._phase = null, and a nextPhase that was never assigned
NullPhase == "null"

Null == << >>
Some(v) == <<v>>
IsNull(x) == x = Null
\* null takes part in arithmetic as 0
Num(x) == IF x = Null THEN 0 ELSE x[1]

\* a number of seconds in thousandths
Sec(s) == s * 1000
DateNow == 0
Quantum == Sec(TickSeconds) \div StepsPerTick

\* settings durations are minutes with two decimals, kept in hundredths
FocusMinutes == {151, 201}
ShortBreakMinutes == {100}
LongBreakMinutes == {151}
\* settings.longBreak.interval: absent (Null) or a count
Intervals == {Null} \cup {Some(n) : n \in -1..MaxInterval}

\* the settings objects the provider hands out
Settings ==
  [focus : FocusMinutes, shortBreak : ShortBreakMinutes,
   longBreak : LongBreakMinutes, interval : Intervals]

\* Math.floor(duration * 60)
DurationSeconds(minutes) == (minutes * 60) \div 100

(* ------------------------------ state --------------------------------- *)

VARIABLES
  settings,      \* PomodoroTimer.settings of the live sequencer
  phase,         \* PomodoroTimer._phase
  nextPhase,     \* PomodoroTimer.nextPhase
  startOfCycle,  \* PomodoroTimer.startOfCycle
  gen,           \* PomodoroTimer.timerGenerator: resume point and loop index
  timer,         \* PomodoroTimer.timer, the Timer the sequencer owns
  old,           \* the Timer that was replaced last
  sched,         \* the host's pending setTimeout / setInterval callbacks
  observed,      \* the wrapper listens to the live sequencer
  timerLog,      \* notifications Timers emitted in the last step
  seqLog,        \* notifications sequencers emitted in the last step
  outLog,        \* notifications the wrapper emitted in the last step
  hung,          \* the last call never returns
  thrown,        \* the last call raised the error
  genCount,      \* history: phases the live generator made, modulo its period
  cyc,           \* history of the owned Timer's current start cycle
  lastOp         \* history: the last step taken

vars ==
  <<settings, phase, nextPhase, startOfCycle, gen, timer, old, sched, observed,
    timerLog, seqLog, outLog, hung, thrown, genCount, cyc, lastOp>>

\* the whole state as one record, which the operations map to a new record
World ==
  [settings |-> settings, phase |-> phase, nextPhase |-> nextPhase,
   startOfCycle |-> startOfCycle, gen |-> gen, timer |-> timer, old |-> old,
   sched |-> sched, observed |-> observed,
   timerLog |-> timerLog, seqLog |-> seqLog, outLog |-> outLog,
   hung |-> hung, thrown |-> thrown, genCount |-> genCount, cyc |-> cyc]

Commit(w) ==
  /\ settings' = w.settings
  /\ phase' = w.phase
  /\ nextPhase' = w.nextPhase
  /\ startOfCycle' = w.startOfCycle
  /\ gen' = w.gen
  /\ timer' = w.timer
  /\ old' = w.old
  /\ sched' = w.sched
  /\ observed' = w.observed
  /\ timerLog' = w.timerLog
  /\ seqLog' = w.seqLog
  /\ outLog' = w.outLog
  /\ hung' = w.hung
  /\ thrown' = w.thrown
  /\ genCount' = w.genCount
  /\ cyc' = w.cyc

(* ------------------------------ Timer --------------------------------- *)

\* history kept with each Timer: the phase and nextPhase the generator had
\* assigned when it made the Timer
NotMade == [phase |-> NullPhase, nextPhase |-> NullPhase]

\* Timer.constructor
NewTimer(duration, tick) ==
  [state |-> Stopped, duration |-> duration, tick |-> tick,
   tickInterval |-> Null, expireTimeout |-> Null,
   periodStartTime |-> Null, remaining |-> Null, listeners |-> "none",
   made |-> NotMade]

\* this.timer of a sequencer whose generator has not run yet
NoTimer ==
  [state |-> "undefined", duration |-> 0, tick |-> 0,
   tickInterval |-> Null, expireTimeout |-> Null,
   periodStartTime |-> Null, remaining |-> Null, listeners |-> "none",
   made |-> NotMade]

\* a call begins: nothing emitted yet, nothing raised; a replaced Timer that
\* is stopped, has no listener and no pending callback is unreachable and is
\* dropped
Begin(w) ==
  [w EXCEPT !.timerLog = << >>, !.seqLog = << >>, !.outLog = << >>,
            !.thrown = FALSE,
            !.old = IF /\ @.state = Stopped
                       /\ @.listeners = "none"
                       /\ \A e \in w.sched : e.owner # "old"
                    THEN NoTimer
                    ELSE @]

NoCycle == [stage |-> "none", ranFor |-> 0, resumedAt |-> Null, expires |-> 0]

Tm(w, r) == IF r = "cur" THEN w.timer ELSE w.old
SetTm(w, r, t) == IF r = "cur" THEN [w EXCEPT !.timer = t] ELSE [w EXCEPT !.old = t]

Prefixed(name) ==
  CASE name = "start" -> "timer:start"
    [] name = "stop" -> "timer:stop"
    [] name = "pause" -> "timer:pause"
    [] name = "resume" -> "timer:resume"
    [] name = "tick" -> "timer:tick"
    [] name = "expire" -> "timer:expire"
    [] OTHER -> "timer:change"

\* PersistentPomodoroTimer.onTimerStart .. onCycleReset: re-emit unchanged
WrapperOn(w, ev) == [w EXCEPT !.outLog = Append(@, ev)]

\* PomodoroTimer.emit: delivered to the wrapper when it has observed
SeqEmit(w, ev) ==
  IF w.observed THEN WrapperOn([w EXCEPT !.seqLog = Append(@, ev)], ev)
  ELSE [w EXCEPT !.seqLog = Append(@, ev)]

\* PomodoroTimer.onStart .. onChange: prepend this.phase, this.nextPhase
SeqOn(w, name, args) ==
  SeqEmit(w, [name |-> Prefixed(name), phase |-> w.phase,
              nextPhase |-> w.nextPhase, args |-> args])

\* history of the owned Timer's start cycle, advanced by its notifications
CycleAfter(c, name) ==
  CASE name = "start" ->
         [stage |-> "active", ranFor |-> 0, resumedAt |-> Null, expires |-> 0]
    [] name = "resume" -> [c EXCEPT !.resumedAt = Some(c.ranFor)]
    [] name = "stop" ->
         [c EXCEPT !.stage = "stopped", !.ranFor = 0, !.resumedAt = Null]
    [] name = "expire" ->
         [c EXCEPT !.stage = "expired", !.ranFor = 0, !.resumedAt = Null,
                   !.expires = @ + 1]
    [] OTHER -> c

\* history: the notification is recorded, with the emitting Timer's listeners
\* and the phase it was made for
Logged(w, r, name, args) ==
  [w EXCEPT !.timerLog = Append(@, [name |-> name, args |-> args, role |-> r,
                                    heard |-> Tm(w, r).listeners,
                                    made |-> Tm(w, r).made]),
            !.cyc = IF r = "cur" THEN CycleAfter(@, name) ELSE @]

\* the listeners observe() registered are called, synchronously
Deliver(w, r, name, args) ==
  CASE Tm(w, r).listeners = "seq" -> SeqOn(w, name, args)
    [] Tm(w, r).listeners = "gone" ->
         \* a sequencer the wrapper dropped is still observed by it; its
         \* phase is not kept
         WrapperOn(w, [name |-> Prefixed(name), phase |-> "gone",
                       nextPhase |-> "gone", args |-> args])
    [] OTHER -> w

\* Timer.emit
Emit(w, r, name, args) == Deliver(Logged(w, r, name, args), r, name, args)

\* this.emit('change')
EmitChange(w, r) == Emit(w, r, "change", << >>)

\* this.emit(name, this.duration - this.remaining, this.remaining)
EmitProgress(w, r, name) ==
  Emit(w, r, name,
       <<Tm(w, r).duration - Num(Tm(w, r).remaining), Num(Tm(w, r).remaining)>>)

\* the handle setTimeout / setInterval returns differs from every pending
\* callback's and from every handle held in a field other than the one it is
\* assigned to (field: "tickInterval" or "expireTimeout" of Timer r)
UsedIds(w, r, field) ==
  {e.id : e \in w.sched}
    \cup {Num(h) : h \in
            ({IF r = "cur" /\ field = "tickInterval" THEN Null
              ELSE w.timer.tickInterval,
              IF r = "cur" /\ field = "expireTimeout" THEN Null
              ELSE w.timer.expireTimeout,
              IF r = "old" /\ field = "tickInterval" THEN Null
              ELSE w.old.tickInterval,
              IF r = "old" /\ field = "expireTimeout" THEN Null
              ELSE w.old.expireTimeout} \ {Null})}

FreshId(w, r, field) ==
  CHOOSE n \in 1..(Cardinality(UsedIds(w, r, field)) + 1) :
    /\ n \notin UsedIds(w, r, field)
    /\ \A m \in 1..(n - 1) : m \in UsedIds(w, r, field)

\* setTimeout / setInterval: a pending callback, its handle kept in a field
Schedule(w, r, kind, field, id, delay, period) ==
  SetTm([w EXCEPT !.sched = @ \cup
           {[id |-> id, kind |-> kind, owner |-> r,
             delay |-> delay, period |-> period]}],
        r, [Tm(w, r) EXCEPT ![field] = Some(id)])

\* clearTimeout / clearInterval: no effect on null or on a handle not pending
Clear(w, handle) ==
  [w EXCEPT !.sched = {e \in @ : IsNull(handle) \/ e.id # Num(handle)}]

\* mutant: the expiry is cancelled, the repeating progress callback is not
ClearBoth_OnlyTimeout(w, r) == Clear(w, Tm(w, r).expireTimeout)

\* clearInterval(this.tickInterval); clearTimeout(this.expireTimeout)
ClearBoth(w, r) ==
  Clear(Clear(w, Tm(w, r).tickInterval), Tm(w, r).expireTimeout)

\* Timer.setExpireTimeout: this.expireTimeout = setTimeout(..., seconds * 1000)
SetExpireTimeout(w, r, seconds) ==
  Schedule(w, r, "timeout", "expireTimeout", FreshId(w, r, "expireTimeout"),
           seconds, 0)

\* Timer.setTickInterval: this.tickInterval = setInterval(..., seconds * 1000)
SetTickInterval(w, r, seconds) ==
  Schedule(w, r, "interval", "tickInterval", FreshId(w, r, "tickInterval"),
           seconds, seconds)

\* Timer.start, lines 56-59: remaining, state and periodStartTime
BeginRun(w, r) ==
  SetTm(w, r, [Tm(w, r) EXCEPT !.remaining = Some(Tm(w, r).duration),
                               !.state = Running,
                               !.periodStartTime = Some(DateNow)])

\* this.emit('start', 0, this.remaining)
EmitStart(w, r) == Emit(w, r, "start", <<0, Num(Tm(w, r).remaining)>>)

\* Timer.start
TimerStart(w, r) ==
  IF Tm(w, r).state # Stopped THEN w
  ELSE EmitChange(
         EmitStart(
           BeginRun(
             SetTickInterval(SetExpireTimeout(w, r, Tm(w, r).duration),
                             r, Tm(w, r).tick),
             r),
           r),
         r)

\* Timer.stop, lines 72-77, and the expiry callback, lines 127-132
Halt(w, r) ==
  SetTm(w, r, [Tm(w, r) EXCEPT !.tickInterval = Null,
                               !.expireTimeout = Null,
                               !.periodStartTime = Null,
                               !.remaining = Null,
                               !.state = Stopped])

\* Timer.stop
TimerStop(w, r) ==
  IF Tm(w, r).state = Stopped THEN w
  ELSE EmitChange(Emit(Halt(ClearBoth(w, r), r), r, "stop", << >>), r)

\* mutant: pause() leaves periodStartTime set
Suspend_KeepsStart(w, r) ==
  SetTm(w, r,
        [Tm(w, r) EXCEPT
           !.remaining = Some(Num(@) - (DateNow - Num(Tm(w, r).periodStartTime))),
           !.state = Paused])

\* mutant: pause() restarts remaining from the duration
Suspend_Resets(w, r) ==
  SetTm(w, r,
        [Tm(w, r) EXCEPT
           !.remaining =
             Some(Tm(w, r).duration - (DateNow - Num(Tm(w, r).periodStartTime))),
           !.state = Paused,
           !.periodStartTime = Null])

\* Timer.pause, lines 90-94
Suspend(w, r) ==
  SetTm(w, r,
        [Tm(w, r) EXCEPT
           !.remaining = Some(Num(@) - (DateNow - Num(Tm(w, r).periodStartTime))),
           !.state = Paused,
           !.periodStartTime = Null])

\* mutant: pause() returns early only when Stopped
TimerPause_WrongGuard(w, r) ==
  IF Tm(w, r).state = Stopped THEN w
  ELSE EmitChange(EmitProgress(Suspend(ClearBoth(w, r), r), r, "pause"), r)

\* mutant: pause() cancels the tick interval but not the expiry
TimerPause_KeepsTimeout(w, r) ==
  IF Tm(w, r).state # Running THEN w
  ELSE EmitChange(
         EmitProgress(Suspend(Clear(w, Tm(w, r).tickInterval), r), r, "pause"),
         r)

\* Timer.pause
TimerPause(w, r) ==
  IF Tm(w, r).state # Running THEN w
  ELSE EmitChange(EmitProgress(Suspend(ClearBoth(w, r), r), r, "pause"), r)

\* Timer.resume, lines 109-110
Continue(w, r) ==
  SetTm(w, r, [Tm(w, r) EXCEPT !.state = Running,
                               !.periodStartTime = Some(DateNow)])

\* mutant: resume() schedules the expiry for the whole duration
TimerResume_FullDuration(w, r) ==
  IF Tm(w, r).state # Paused THEN w
  ELSE EmitChange(
         EmitProgress(
           Continue(
             SetTickInterval(SetExpireTimeout(w, r, Tm(w, r).duration),
                             r, Tm(w, r).tick),
             r),
           r, "resume"),
         r)

\* Timer.resume
TimerResume(w, r) ==
  IF Tm(w, r).state # Paused THEN w
  ELSE EmitChange(
         EmitProgress(
           Continue(
             SetTickInterval(SetExpireTimeout(w, r, Num(Tm(w, r).remaining)),
                             r, Tm(w, r).tick),
             r),
           r, "resume"),
         r)

\* mutant: reset() without stop()
TimerReset_NoStop(w, r) == TimerStart(w, r)

\* Timer.reset
TimerReset(w, r) == TimerStart(TimerStop(w, r), r)

\* this.emit('expire', this.duration, 0)
EmitExpire(w, r) == Emit(w, r, "expire", <<Tm(w, r).duration, 0>>)

\* mutant: the expiry callback emits expire without the change after it
ExpireCallback_NoChange(w, r) == EmitExpire(Halt(ClearBoth(w, r), r), r)

\* the callback setExpireTimeout schedules
ExpireCallback(w, r) == EmitChange(EmitExpire(Halt(ClearBoth(w, r), r), r), r)

\* mutant: the progress callback commits the remaining it reports and begins
\* a new segment
TickCallback_Commits(w, r) ==
  Emit(SetTm(w, r,
             [Tm(w, r) EXCEPT
                !.remaining =
                  Some(Num(@) - (DateNow - Num(Tm(w, r).periodStartTime))),
                !.periodStartTime = Some(DateNow)]),
       r, "tick",
       <<Tm(w, r).duration
           - (Num(Tm(w, r).remaining) - (DateNow - Num(Tm(w, r).periodStartTime))),
         Num(Tm(w, r).remaining) - (DateNow - Num(Tm(w, r).periodStartTime))>>)

\* the callback setTickInterval schedules
TickCallback(w, r) ==
  LET periodLength == DateNow - Num(Tm(w, r).periodStartTime)
      remaining == Num(Tm(w, r).remaining) - periodLength
      elapsed == Tm(w, r).duration - remaining
  IN Emit(w, r, "tick", <<elapsed, remaining>>)

\* EventEmitter.removeAllListeners
RemoveAllListeners(w, r) == SetTm(w, r, [Tm(w, r) EXCEPT !.listeners = "none"])

\* Timer.observe(sequencer)
Observe(t) == [t EXCEPT !.listeners = "seq"]

(* --------------------------- PomodoroTimer ---------------------------- *)

\* JavaScript truthiness of settings.longBreak.interval
Truthy(x) == ~IsNull(x) /\ Num(x) # 0

\* the loop test of createTimers: !interval || (i < interval)
ForCond(interval, i) == ~Truthy(interval) \/ i < Num(interval)

\* the loop update of createTimers: interval && ++i
ForUpdate(interval, i) == IF Truthy(interval) THEN i + 1 ELSE i

\* mutant: i == interval
ShortBreakNext_OffByOne(interval, i) ==
  IF Truthy(interval) /\ i = Num(interval) THEN LongBreak ELSE Focus

\* interval && (i == interval - 1) ? Phase.LongBreak : Phase.Focus
ShortBreakNext(interval, i) ==
  IF Truthy(interval) /\ i = Num(interval) - 1 THEN LongBreak ELSE Focus

\* mutant: settings.longBreak.interval >= 0
HasLongBreak_NonNegative(w) ==
  ~IsNull(w.settings.interval) /\ Num(w.settings.interval) >= 0

\* PomodoroTimer.hasLongBreak: settings.longBreak.interval > 0
HasLongBreak(w) == ~IsNull(w.settings.interval) /\ Num(w.settings.interval) > 0

\* the length of the phase sequence before it repeats: (Focus, ShortBreak)
\* interval times and one LongBreak, or (Focus, ShortBreak) alone
Period(interval) ==
  IF ~IsNull(interval) /\ Num(interval) > 0 THEN 2 * Num(interval) + 1 ELSE 2

\* a replaced Timer's pending callbacks stay in the host's table
Retire(sch) == {[e EXCEPT !.owner = "old"] : e \in sch}

\* setTimer of createTimers, lines 173-174: observe the new Timer and own it
Install(w, newTimer) ==
  [w EXCEPT !.timer = Observe(newTimer),
            !.old = IF w.timer.state # "undefined" THEN w.timer ELSE @,
            !.sched = IF w.timer.state # "undefined" THEN Retire(@) ELSE @,
            !.cyc = NoCycle]

\* mutant: setTimer detaches the owned Timer without stopping it
SetTimer_NoStop(w, newTimer) ==
  IF w.timer.state # "undefined"
  THEN Install(RemoveAllListeners(w, "cur"), newTimer)
  ELSE Install(w, newTimer)

\* setTimer of createTimers: stop and detach the owned Timer, if any, first
SetTimer(w, newTimer) ==
  IF w.timer.state # "undefined"
  THEN Install(RemoveAllListeners(TimerStop(w, "cur"), "cur"), newTimer)
  ELSE Install(w, newTimer)

\* new Timer(Math.floor(duration * 60), 60)
PhaseTimer(minutes) == NewTimer(Sec(DurationSeconds(minutes)), Sec(TickSeconds))

\* history: the Timer is made for the phase the generator has just assigned
MadeFor(t, p, n) == [t EXCEPT !.made = [phase |-> p, nextPhase |-> n]]

\* the generator is suspended at a yield
Yield(w, pc, i) == [w EXCEPT !.gen = [pc |-> pc, i |-> i]]

\* createTimers, lines 179-182
FocusStage(w, i) ==
  Yield(SetTimer([w EXCEPT !.phase = Focus, !.nextPhase = ShortBreak],
                 MadeFor(PhaseTimer(w.settings.focus), Focus, ShortBreak)),
        "afterFocus", i)

\* createTimers, lines 184-187
ShortBreakStage(w, i) ==
  Yield(SetTimer([w EXCEPT !.phase = ShortBreak,
                           !.nextPhase = ShortBreakNext(w.settings.interval, i)],
                 MadeFor(PhaseTimer(w.settings.shortBreak), ShortBreak,
                         ShortBreakNext(w.settings.interval, i))),
        "afterShort", i)

\* createTimers, lines 190-195: settings.longBreak is an object
LongBreakStage(w, i) ==
  Yield(SetTimer([w EXCEPT !.phase = LongBreak, !.nextPhase = Focus],
                 MadeFor(PhaseTimer(w.settings.longBreak), LongBreak, Focus)),
        "afterLong", i)

\* the for loop's test, entered with index i
EnterFor(w, i) ==
  IF ForCond(w.settings.interval, i) THEN FocusStage(w, i)
  ELSE LongBreakStage(w, i)

\* createTimers from its resume point to the next yield
Resume(w) ==
  CASE w.gen.pc = "afterFocus" -> ShortBreakStage(w, w.gen.i)
    [] w.gen.pc = "afterShort" ->
         EnterFor(w, ForUpdate(w.settings.interval, w.gen.i))
    [] OTHER -> EnterFor(w, 0)

\* history: one more phase generated
Counted(w) == [w EXCEPT !.genCount = (@ + 1) % Period(w.settings.interval)]

\* this.timerGenerator.next()
GenNext(w) == Resume(Counted(w))

\* while (this.phase != newPhase) this.timerGenerator.next(): it never ends
\* once the generator is back at a resume point it already left
RECURSIVE SetPhaseLoop(_, _, _)
SetPhaseLoop(w, newPhase, seen) ==
  IF w.phase = newPhase THEN w
  ELSE IF w.gen \in seen THEN [w EXCEPT !.hung = TRUE]
  ELSE SetPhaseLoop(GenNext(w), newPhase, seen \cup {w.gen})

CycleReset(newPhase) ==
  [name |-> "cycle:reset", phase |-> newPhase, nextPhase |-> NullPhase,
   args |-> << >>]

\* mutant: the setter goes on with the generator it has
Restart_KeepsCursor(w) == [w EXCEPT !.phase = NullPhase]

\* the phase setter, lines 208-209: a new generator, this._phase = null
Restart(w) ==
  [w EXCEPT !.gen = [pc |-> "start", i |-> 0], !.genCount = 0,
            !.phase = NullPhase]

\* the phase setter, lines 213-214
MarkStart(w, newPhase) ==
  IF w.hung THEN w
  ELSE SeqEmit([w EXCEPT !.startOfCycle = TRUE], CycleReset(newPhase))

\* mutant: the setter restarts the generator before it checks the phase
SetPhase_LateCheck(w, newPhase) ==
  IF ~HasLongBreak(w) /\ newPhase = LongBreak
  THEN [Restart(w) EXCEPT !.thrown = TRUE]
  ELSE MarkStart(SetPhaseLoop(Restart(w), newPhase, {}), newPhase)

\* PomodoroTimer: set phase(newPhase)
SetPhase(w, newPhase) ==
  IF ~HasLongBreak(w) /\ newPhase = LongBreak THEN [w EXCEPT !.thrown = TRUE]
  ELSE MarkStart(SetPhaseLoop(Restart(w), newPhase, {}), newPhase)

\* mutant: start() advances the generator whatever startOfCycle says
SeqStart_AlwaysAdvances(w) ==
  TimerStart(GenNext([w EXCEPT !.startOfCycle = FALSE]), "cur")

\* PomodoroTimer.start
SeqStart(w) ==
  TimerStart(IF w.startOfCycle THEN [w EXCEPT !.startOfCycle = FALSE]
             ELSE GenNext(w),
             "cur")

\* PomodoroTimer.pause / stop / resume / reset
SeqPause(w) == TimerPause(w, "cur")
SeqStop(w) == TimerStop(w, "cur")
SeqResume(w) == TimerResume(w, "cur")
SeqReset(w) == TimerReset(w, "cur")

\* mutant: dispose() detaches the listeners but does not stop the Timer
Dispose_NoStop(w) == RemoveAllListeners(w, "cur")

\* PomodoroTimer.dispose
Dispose(w) == RemoveAllListeners(TimerStop(w, "cur"), "cur")

\* this.start() after the phase setter, unless the setter raised
ThenStart(w) == IF w.thrown \/ w.hung THEN w ELSE SeqStart(w)

\* PomodoroTimer.startCycle / startFocus / startShortBreak / startLongBreak
StartCycle(w) == ThenStart(SetPhase(w, Focus))
StartFocus(w) == StartCycle(w)
StartShortBreak(w) == ThenStart(SetPhase(w, ShortBreak))
StartLongBreak(w) == ThenStart(SetPhase(w, LongBreak))

(* ---------------------- PersistentPomodoroTimer ----------------------- *)

\* a Timer of a sequencer the wrapper no longer holds
Orphan(t) == IF t.listeners = "seq" THEN [t EXCEPT !.listeners = "gone"] ELSE t

\* a PomodoroTimer before its constructor's body: no timer, no generator, no
\* listener
Fresh(w, s) ==
  [w EXCEPT !.old = Orphan(IF w.timer.state # "undefined" THEN w.timer ELSE @),
            !.sched = IF w.timer.state # "undefined" THEN Retire(@) ELSE @,
            !.timer = NoTimer,
            !.settings = s,
            !.phase = NullPhase,
            !.nextPhase = NullPhase,
            !.startOfCycle = FALSE,
            !.gen = [pc |-> "none", i |-> 0],
            !.genCount = 0,
            !.cyc = NoCycle,
            !.observed = FALSE]

\* new PomodoroTimer(settings, initialPhase)
NewSequencer(w, s, initialPhase) == SetPhase(Fresh(w, s), initialPhase)

\* this.timer.observe(this), once the constructor has returned
Subscribe(w) == IF w.hung THEN w ELSE [w EXCEPT !.observed = TRUE]

\* PersistentPomodoroTimer.onSettingsChange
OnSettingsChange(w, s) ==
  Subscribe(NewSequencer(IF w.gen.pc # "none" THEN Dispose(w) ELSE w, s, Focus))

\* the state in which PersistentPomodoroTimer's constructor begins
Blank(s) ==
  [settings |-> s, phase |-> NullPhase, nextPhase |-> NullPhase,
   startOfCycle |-> FALSE, gen |-> [pc |-> "none", i |-> 0],
   timer |-> NoTimer, old |-> NoTimer, sched |-> {}, observed |-> FALSE,
   timerLog |-> << >>, seqLog |-> << >>, outLog |-> << >>,
   hung |-> FALSE, thrown |-> FALSE, genCount |-> 0, cyc |-> NoCycle]

(* ----------------------------- the host ------------------------------- *)

Shift(t) ==
  IF IsNull(t.periodStartTime) THEN t
  ELSE [t EXCEPT !.periodStartTime = Some(Num(@) - Quantum)]

\* one Quantum passes
Elapse(w) ==
  [w EXCEPT !.sched = {[e EXCEPT !.delay = @ - Quantum] : e \in @},
            !.timer = Shift(@),
            !.old = Shift(@),
            !.cyc = IF w.timer.state = Running
                    THEN [@ EXCEPT !.ranFor = @ + Quantum] ELSE @]

\* the host runs a due setTimeout callback, once
FireTimeout(w, e) == ExpireCallback([w EXCEPT !.sched = @ \ {e}], e.owner)

\* the host runs a due setInterval callback and re-arms it
FireInterval(w, e) ==
  TickCallback([w EXCEPT !.sched = (@ \ {e}) \cup
                           {[e EXCEPT !.delay = @ + e.period]}], e.owner)

(* ------------------------------ actions ------------------------------- *)

\* history: the step's name and its argument; start() records the step that
\* came before it and reset() the state it found the Timer in
Op(name, arg) == [name |-> name, arg |-> arg]

Init ==
  \E s \in Settings :
    \E w \in {OnSettingsChange(Blank(s), s)} :
       /\ settings = w.settings
       /\ phase = w.phase
       /\ nextPhase = w.nextPhase
       /\ startOfCycle = w.startOfCycle
       /\ gen = w.gen
       /\ timer = w.timer
       /\ old = w.old
       /\ sched = w.sched
       /\ observed = w.observed
       /\ timerLog = w.timerLog
       /\ seqLog = w.seqLog
       /\ outLog = w.outLog
       /\ hung = w.hung
       /\ thrown = w.thrown
       /\ genCount = w.genCount
       /\ cyc = w.cyc
       /\ lastOp = Op("create", "")

\* wrapper.phase = p
DoSetPhase ==
  \E p \in Phase :
    /\ ~hung
    /\ Commit(SetPhase(Begin(World), p))
    /\ lastOp' = Op("setPhase", p)

DoStartCycle ==
  /\ ~hung
  /\ Commit(StartCycle(Begin(World)))
  /\ lastOp' = Op("startCycle", Focus)

DoStartFocus ==
  /\ ~hung
  /\ Commit(StartFocus(Begin(World)))
  /\ lastOp' = Op("startFocus", Focus)

DoStartShortBreak ==
  /\ ~hung
  /\ Commit(StartShortBreak(Begin(World)))
  /\ lastOp' = Op("startShortBreak", ShortBreak)

DoStartLongBreak ==
  /\ ~hung
  /\ Commit(StartLongBreak(Begin(World)))
  /\ lastOp' = Op("startLongBreak", LongBreak)

DoStart ==
  /\ ~hung
  /\ Commit(SeqStart(Begin(World)))
  /\ lastOp' = Op("start", lastOp.name)

DoPause ==
  /\ ~hung
  /\ Commit(SeqPause(Begin(World)))
  /\ lastOp' = Op("pause", "")

DoStop ==
  /\ ~hung
  /\ Commit(SeqStop(Begin(World)))
  /\ lastOp' = Op("stop", "")

DoResume ==
  /\ ~hung
  /\ Commit(SeqResume(Begin(World)))
  /\ lastOp' = Op("resume", "")

DoReset ==
  /\ ~hung
  /\ Commit(SeqReset(Begin(World)))
  /\ lastOp' = Op("reset", timer.state)

\* the settings provider's change notification
DoSettingsChange ==
  \E s \in Settings :
    /\ ~hung
    /\ Commit(OnSettingsChange(Begin(World), s))
    /\ lastOp' = Op("settingsChange", "")

\* the clock moves on; a due callback is late by MaxLateSteps steps at most
Advance ==
  /\ ~hung
  /\ sched # {}
  /\ \A e \in sched : e.delay + MaxLateSteps * Quantum > 0
  /\ Commit(Elapse(Begin(World)))
  /\ lastOp' = Op("advance", "")

ExpireFire ==
  \E e \in sched :
    /\ ~hung
    /\ e.kind = "timeout"
    /\ e.delay <= 0
    /\ Commit(FireTimeout(Begin(World), e))
    /\ lastOp' = Op("expireFire", e.owner)

TickFire ==
  \E e \in sched :
    /\ ~hung
    /\ e.kind = "interval"
    /\ e.delay <= 0
    /\ Commit(FireInterval(Begin(World), e))
    /\ lastOp' = Op("tickFire", e.owner)

Next ==
  \/ DoSetPhase
  \/ DoStartCycle
  \/ DoStartFocus
  \/ DoStartShortBreak
  \/ DoStartLongBreak
  \/ DoStart
  \/ DoPause
  \/ DoStop
  \/ DoResume
  \/ DoReset
  \/ DoSettingsChange
  \/ Advance
  \/ ExpireFire
  \/ TickFire

Spec == Init /\ [][Next]_vars

\* ExpireFire and TickFire are enabled: a callback of that kind is due
ExpiryDue == ~hung /\ \E e \in sched : e.kind = "timeout" /\ e.delay <= 0
TickDue == ~hung /\ \E e \in sched : e.kind = "interval" /\ e.delay <= 0

\* strong fairness of ExpireFire and weak fairness of TickFire, written out:
\* ENABLED is the predicate above, and the steps of the action are the steps
\* that record it
FairExpiry == <>[](~ExpiryDue) \/ []<><<lastOp'.name = "expireFire">>_vars
FairTick == []<>(~TickDue) \/ []<><<lastOp'.name = "tickFire">>_vars

\* the host: the clock goes on whenever it can, and a callback that is due is
\* run, a due expiry even if pause() and resume() keep replacing it
LiveSpec ==
  /\ Init
  /\ [][Next]_vars
  /\ SF_vars(Advance)
  /\ FairExpiry
  /\ FairTick

(* ------------------------------ claims ------------------------------- *)

Names(log) == [k \in 1..Len(log) |-> log[k].name]
PendingOf(r, kind) == {e \in sched : e.owner = r /\ e.kind = kind}
MinutesOf(s, p) ==
  CASE p = Focus -> s.focus
    [] p = ShortBreak -> s.shortBreak
    [] OTHER -> s.longBreak

TimerFieldsMatch(t) ==
  /\ IsNull(t.remaining) <=> t.state = Stopped
  /\ ~IsNull(t.periodStartTime) <=> t.state = Running

\* C1: in every reachable state of a Timer, remaining is null iff state is
\* Stopped and periodStartTime is non-null iff state is Running.
C1_FieldsMatchState ==
  /\ timer.state \in TimerState
  /\ TimerFieldsMatch(timer)
  /\ old.state # "undefined" => old.state \in TimerState /\ TimerFieldsMatch(old)

\* a Timer paused part-way: remaining is kept, periodStartTime is cleared
C1_Witness ==
  /\ timer.state = Paused
  /\ lastOp.name = "pause"
  /\ Num(timer.remaining) < timer.duration
  /\ IsNull(timer.periodStartTime)

NothingEmitted == timerLog' = << >> /\ seqLog' = << >> /\ outLog' = << >>

\* C2: start() on a Timer that is not Stopped, stop() on a Stopped one,
\* pause() on one that is not Running and resume() on one that is not Paused,
\* called directly or through the sequencer, leave the Timer and the pending
\* callbacks unchanged, emit nothing and raise nothing.
C2_OutOfPreconditionIsNoOp ==
  [][ /\ ( \/ lastOp'.name = "start" /\ startOfCycle /\ timer.state # Stopped
           \/ lastOp'.name = "stop" /\ timer.state = Stopped
           \/ lastOp'.name = "pause" /\ timer.state # Running
           \/ lastOp'.name = "resume" /\ timer.state # Paused )
         => /\ timer' = timer
            /\ sched' = sched
            /\ phase' = phase
            /\ nextPhase' = nextPhase
            /\ gen' = gen
            /\ NothingEmitted
            /\ ~thrown'
            /\ ~hung' ]_vars

\* start() was called on a Paused Timer and did nothing
C2_Witness ==
  /\ lastOp.name = "start"
  /\ timer.state = Paused
  /\ timerLog = << >>

\* the phase and nextPhase the claim gives the c-th generated phase, c counted
\* modulo the sequence's period 2n + 1 (n > 0) or 2 (no long break)
ClaimedPosition(n, c) == IF c = 0 THEN Period(Some(n)) - 1 ELSE c - 1
ClaimedPhase(n, c) ==
  IF n > 0 /\ ClaimedPosition(n, c) = 2 * n THEN LongBreak
  ELSE IF ClaimedPosition(n, c) % 2 = 0 THEN Focus ELSE ShortBreak
ClaimedNext(n, c) ==
  CASE ClaimedPhase(n, c) = Focus -> ShortBreak
    [] ClaimedPhase(n, c) = LongBreak -> Focus
    [] OTHER -> IF n > 0 /\ ClaimedPosition(n, c) = 2 * n - 1 THEN LongBreak
                ELSE Focus

\* C3: with a long-break interval N > 0 the generated phases are N times
\* (Focus, ShortBreak), then one LongBreak, repeated; Focus is followed by
\* ShortBreak, LongBreak by Focus, and ShortBreak by LongBreak exactly when it
\* is the last one before the LongBreak, else by Focus.
C3_PhaseOrder ==
  HasLongBreak(World) =>
    /\ ~hung
    /\ phase = ClaimedPhase(Num(settings.interval), genCount)
    /\ nextPhase = ClaimedNext(Num(settings.interval), genCount)

\* start() has advanced the sequencer into the LongBreak after two cycles
C3_Witness ==
  /\ settings.interval = Some(2)
  /\ lastOp = Op("start", "start")
  /\ phase = LongBreak
  /\ genCount = 0
  /\ timer.state = Running

\* C4: with long-break interval 0 or absent the phase is only ever Focus or
\* ShortBreak, in strict alternation, nextPhase is never LongBreak, and
\* setting the phase to LongBreak raises the error.
C4_NoLongBreak ==
  ~Truthy(settings.interval) =>
    /\ ~hung
    /\ phase = ClaimedPhase(0, genCount)
    /\ phase \in {Focus, ShortBreak}
    /\ nextPhase = ClaimedNext(0, genCount)
    /\ nextPhase # LongBreak
    /\ lastOp.arg = LongBreak => thrown

\* the sequencer has advanced to a ShortBreak and back to Focus without a long
\* break interval
C4_Witness ==
  /\ ~Truthy(settings.interval)
  /\ lastOp = Op("start", "start")
  /\ phase = Focus
  /\ genCount = 1

\* C5: without a long-break interval, setPhase(LongBreak) and startLongBreak()
\* raise the error and change nothing: phase, nextPhase, generator, fresh-cycle
\* flag, the owned Timer and its callbacks stay, nothing is emitted.
C5_ErrorLeavesStateUnchanged ==
  [][ lastOp'.arg = LongBreak /\ ~HasLongBreak(World)
        => /\ thrown'
           /\ ~hung'
           /\ settings' = settings
           /\ phase' = phase
           /\ nextPhase' = nextPhase
           /\ gen' = gen
           /\ genCount' = genCount
           /\ startOfCycle' = startOfCycle
           /\ timer' = timer
           /\ sched' = sched
           /\ cyc' = cyc
           /\ NothingEmitted ]_vars

\* startLongBreak() raised while the owned Timer was Running, which it still is
C5_Witness ==
  /\ thrown
  /\ lastOp.name = "startLongBreak"
  /\ timer.state = Running
  /\ ~startOfCycle

\* steps in which the sequencer stays in its phase
StaysInPhase(name) ==
  name \in {"pause", "stop", "resume", "reset", "advance", "expireFire", "tickFire"}

\* C6: setPhase(target) then start() does not advance the generator: it starts
\* a Timer of the target phase's duration in whole seconds, clears the
\* fresh-cycle flag, and the timer:* notifications emitted until the next phase
\* transition carry currentPhase = target.
C6_SetPhaseThenStart ==
  [][ /\ ( lastOp.name = "setPhase" /\ ~thrown /\ lastOp'.name = "start" )
         => /\ gen' = gen
            /\ genCount' = genCount
            /\ ~startOfCycle'
            /\ phase' = lastOp.arg
            /\ timer'.state = Running
            /\ timer'.duration = Sec((MinutesOf(settings, lastOp.arg) * 60) \div 100)
            /\ timer'.remaining = Some(timer'.duration)
            /\ Names(outLog') = <<"timer:start", "timer:change">>
            /\ \A k \in 1..Len(outLog') : outLog'[k].phase = lastOp.arg
      /\ StaysInPhase(lastOp'.name)
         => /\ phase' = phase
            /\ \A k \in 1..Len(outLog') : outLog'[k].phase = phase ]_vars

\* a ShortBreak Timer runs after setPhase(ShortBreak); start()
C6_Witness ==
  /\ lastOp = Op("start", "setPhase")
  /\ phase = ShortBreak
  /\ timer.state = Running
  /\ PendingOf("cur", "timeout") # {}

\* C7: the remaining a pause() commits is the duration minus the total time
\* the Timer has been Running since start(), and the pause notification
\* carries elapsed = duration - remaining.
C7_PauseAccumulates ==
  /\ timer.state = Paused => Num(timer.remaining) = timer.duration - cyc.ranFor
  /\ lastOp.name = "pause" /\ timerLog # << >>
       => /\ timerLog[1].name = "pause"
          /\ timerLog[1].role = "cur"
          /\ timerLog[1].args = <<cyc.ranFor, timer.duration - cyc.ranFor>>

\* a second pause, after running both before and after the resume
C7_Witness ==
  /\ timer.state = Paused
  /\ lastOp.name = "pause"
  /\ ~IsNull(cyc.resumedAt)
  /\ Num(cyc.resumedAt) > 0
  /\ cyc.ranFor > Num(cyc.resumedAt)

\* C8: in each start cycle not ended by stop() the expire notification is
\* emitted once, with elapsed = duration and remaining = 0, and leaves the
\* Timer Stopped; the only pending expiry is the one the latest start() or
\* resume() of a Running Timer scheduled, so one whose running segment was
\* ended by pause() or stop() never fires.
C8_ExpiryOncePerCycle ==
  /\ cyc.expires <= 1
  /\ cyc.stage = "expired" <=> cyc.expires = 1
  /\ cyc.stage = "active" <=> timer.state \in {Running, Paused}
  /\ \A e \in sched :
       e.kind = "timeout" =>
         /\ e.owner = "cur"
         /\ timer.state = Running
         /\ timer.expireTimeout = Some(e.id)
  /\ timer.state = Running => Cardinality(PendingOf("cur", "timeout")) = 1
  /\ lastOp.name = "expireFire" =>
       /\ timer.state = Stopped
       /\ cyc.stage = "expired"
       /\ Names(timerLog) = <<"expire", "change">>
       /\ timerLog[1].role = "cur"
       /\ timerLog[1].args = <<timer.duration, 0>>

\* the expiry callback has fired
C8_Witness ==
  /\ lastOp.name = "expireFire"
  /\ cyc.expires = 1
  /\ timer.state = Stopped

\* C9: reset() does what stop() then start() do: from Stopped the
\* notifications are start, change; from Running or Paused they are stop,
\* change, start, change; afterwards the Timer is Running with remaining equal
\* to duration, a new segment and newly scheduled callbacks.
C9_ResetIsStopThenStart ==
  [][ lastOp'.name = "reset"
        => /\ timer'.state = Running
           /\ timer'.duration = timer.duration
           /\ timer'.remaining = Some(timer.duration)
           /\ timer'.periodStartTime = Some(DateNow)
           /\ Names(timerLog') =
                IF timer.state = Stopped THEN <<"start", "change">>
                ELSE <<"stop", "change", "start", "change">>
           /\ timerLog'[Len(timerLog') - 1].args = <<0, timer.duration>>
           /\ {<<e.kind, e.owner, e.delay>> : e \in sched'} =
                {<<"timeout", "cur", timer.duration>>,
                 <<"interval", "cur", timer.tick>>}
           /\ Cardinality(sched') = 2
           /\ phase' = phase
           /\ gen' = gen ]_vars

\* reset() found the Timer Paused and restarted it
C9_Witness ==
  /\ lastOp = Op("reset", Paused)
  /\ timer.state = Running
  /\ timer.remaining = Some(timer.duration)
  /\ Len(timerLog) = 4

\* C10: a settings change in any state stops the held sequencer's Timer and
\* detaches its listeners before the new sequencer exists; afterwards the
\* wrapper is at Focus and Stopped, and the next start() runs a Focus Timer
\* with the new settings' whole focus duration.
C10_SettingsChangeRestarts ==
  [][ /\ lastOp'.name = "settingsChange" /\ ~hung'
         => /\ old'.state = Stopped
            /\ old'.listeners = "none"
            /\ old'.duration = timer.duration
            /\ IsNull(old'.remaining)
            /\ sched' = {}
            /\ Names(outLog') =
                 IF timer.state = Stopped THEN << >>
                 ELSE <<"timer:stop", "timer:change">>
            /\ \A k \in 1..Len(outLog') : outLog'[k].phase = phase
            /\ phase' = Focus
            /\ startOfCycle'
            /\ observed'
            /\ timer'.state = Stopped
            /\ timer'.listeners = "seq"
            /\ IsNull(timer'.remaining)
            /\ timer'.duration = Sec((settings'.focus * 60) \div 100)
      /\ ( lastOp.name = "settingsChange" /\ ~hung /\ lastOp'.name = "start" )
         => /\ settings' = settings
            /\ phase' = Focus
            /\ timer'.state = Running
            /\ timer'.remaining = Some(Sec((settings.focus * 60) \div 100))
            /\ Names(outLog') = <<"timer:start", "timer:change">> ]_vars

\* the settings changed while a Timer was live: it has been stopped
C10_Witness ==
  /\ lastOp.name = "settingsChange"
  /\ ~hung
  /\ Len(outLog) = 2
  /\ old.state = Stopped
  /\ timer.state = Stopped
  /\ phase = Focus

\* the notification after the k-th of the step is a change of the same Timer,
\* and the one after that is not
OneChangeAfter(k) ==
  /\ k < Len(timerLog)
  /\ timerLog[k + 1].name = "change"
  /\ timerLog[k + 1].role = timerLog[k].role
  /\ timerLog[k + 1].made = timerLog[k].made
  /\ k + 2 <= Len(timerLog) => timerLog[k + 2].name # "change"

\* C11 as stated: each start, stop, pause, resume, tick and expire a Timer
\* emits is immediately followed by exactly one change of that Timer.
C11_ChangeAfterEveryNotification ==
  \A k \in 1..Len(timerLog) :
    timerLog[k].name \in {"start", "stop", "pause", "resume", "tick", "expire"}
      => OneChangeAfter(k)

\* C11, amended: each start, stop, pause, resume and expire a Timer emits is
\* immediately followed by exactly one change of that Timer, and a change
\* follows nothing else; the tick callback emits tick alone, with no change.
C11_ChangeAfterStateNotifications ==
  /\ \A k \in 1..Len(timerLog) :
       /\ timerLog[k].name \in {"start", "stop", "pause", "resume", "expire"}
            => OneChangeAfter(k)
       /\ timerLog[k].name = "change"
            => /\ k > 1
               /\ timerLog[k - 1].name
                    \in {"start", "stop", "pause", "resume", "expire"}
       /\ timerLog[k].name = "tick" => Len(timerLog) = 1
  /\ lastOp.name = "tickFire" => Names(timerLog) = <<"tick">>
  /\ lastOp.name = "expireFire" => Names(timerLog) = <<"expire", "change">>

\* a tick callback has fired on a Timer that had been paused and resumed
C11_Witness ==
  /\ lastOp.name = "tickFire"
  /\ Names(timerLog) = <<"tick">>
  /\ ~IsNull(cyc.resumedAt)
  /\ timer.state = Running

\* the notifications of the step that reached the sequencer, and the timer:*
\* notifications the sequencer emitted
HeardBySequencer(e) == e.heard = "seq"
IsTimerEvent(ev) == ev.name # "cycle:reset"

\* C12: every timer:* notification the sequencer emits carries the phase, and
\* that phase's nextPhase, of the Timer whose notification it re-emits, the
\* stop of a Running or Paused Timer that setPhase() or an advancing start()
\* replaces included.
C12_EventsCarryProducersPhase ==
  /\ Len(SelectSeq(seqLog, IsTimerEvent))
       = Len(SelectSeq(timerLog, HeardBySequencer))
  /\ \A k \in 1..Len(SelectSeq(seqLog, IsTimerEvent)) :
       /\ SelectSeq(seqLog, IsTimerEvent)[k].name
            = Prefixed(SelectSeq(timerLog, HeardBySequencer)[k].name)
       /\ SelectSeq(seqLog, IsTimerEvent)[k].args
            = SelectSeq(timerLog, HeardBySequencer)[k].args
       /\ SelectSeq(seqLog, IsTimerEvent)[k].phase
            = SelectSeq(timerLog, HeardBySequencer)[k].made.phase
       /\ SelectSeq(seqLog, IsTimerEvent)[k].nextPhase
            = SelectSeq(timerLog, HeardBySequencer)[k].made.nextPhase

\* C13: every timer:* and cycle:reset notification a sequencer built by the
\* wrapper emits, the cycle:reset of its construction at Focus included, is
\* re-emitted by the wrapper once, with the same arguments, and the wrapper
\* emits nothing else.
C13_WrapperForwardsEverything == outLog = seqLog

\* Timer t, in role r, has one pending callback of each kind, the ones its
\* fields hold, when it is Running and none otherwise
CallbacksMatchState(t, r) ==
  /\ Cardinality(PendingOf(r, "timeout")) = IF t.state = Running THEN 1 ELSE 0
  /\ Cardinality(PendingOf(r, "interval")) = IF t.state = Running THEN 1 ELSE 0
  /\ \A e \in PendingOf(r, "timeout") : t.expireTimeout = Some(e.id)
  /\ \A e \in PendingOf(r, "interval") : t.tickInterval = Some(e.id)

\* C14: a Timer has a pending expiry callback and a pending progress callback
\* exactly when it is Running, one of each; tick and expire are emitted only by
\* a callback firing on a Timer that was Running when it fired.
C14_CallbacksOnlyWhileRunning ==
  /\ [](CallbacksMatchState(timer, "cur") /\ CallbacksMatchState(old, "old"))
  /\ [][ \A k \in 1..Len(timerLog') :
           timerLog'[k].name \in {"tick", "expire"}
             => /\ lastOp'.name \in {"tickFire", "expireFire"}
                /\ Tm(World, timerLog'[k].role).state = Running ]_vars

\* paused for the second time: both callbacks of the resumed segment are gone
C14_Witness ==
  /\ lastOp.name = "pause"
  /\ timer.state = Paused
  /\ ~IsNull(cyc.resumedAt)
  /\ cyc.ranFor > Num(cyc.resumedAt)
  /\ sched = {}
  /\ ~IsNull(timer.expireTimeout)

\* the Timer that was replaced is Stopped, has no listener and no pending
\* callback, and has emitted nothing in the last step
ReplacedTimerIsInert ==
  /\ old.state \in {"undefined", Stopped}
  /\ old.listeners = "none"
  /\ \A e \in sched : e.owner = "cur"
  /\ \A k \in 1..Len(timerLog) : timerLog[k].role = "cur"

\* the step is a call that makes the sequencer own another Timer
ReplacesTimer ==
  \/ /\ lastOp'.name \in {"setPhase", "startCycle", "startFocus",
                          "startShortBreak", "startLongBreak", "settingsChange"}
     /\ ~thrown'
  \/ lastOp'.name = "start" /\ ~startOfCycle

\* C15: no Timer but the owned one is ever Running or Paused; when the owned
\* Timer is replaced while Running or Paused it is stopped first, its stop and
\* change still reaching the sequencer, then detached, and the new Timer is
\* attached; the replaced Timer emits nothing and stays Stopped ever after.
C15_OneLiveTimer ==
  /\ []ReplacedTimerIsInert
  /\ [][ ReplacesTimer
           => /\ timer'.listeners = "seq"
              /\ timer.state \in {Running, Paused}
                   => /\ Len(timerLog') >= 2
                      /\ timerLog'[1].name = "stop"
                      /\ timerLog'[2].name = "change"
                      /\ \A k \in 1..2 :
                           /\ timerLog'[k].heard = "seq"
                           /\ timerLog'[k].made = timer.made
                      /\ old'.state = Stopped
                      /\ \A k \in 3..Len(timerLog') :
                           timerLog'[k].name \in {"start", "change"}
              /\ timer.state = Stopped
                   => \A k \in 1..Len(timerLog') :
                        timerLog'[k].name \in {"start", "change"} ]_vars

\* start() has replaced a Running Timer by the next phase's
C15_Witness ==
  /\ lastOp.name = "start"
  /\ Names(timerLog) = <<"stop", "change", "start", "change">>
  /\ old.state = Stopped
  /\ old.made # timer.made
  /\ timer.state = Running

\* the nextPhase of the first occurrence of phase p in the sequence for a
\* long-break interval n (0: none): the first ShortBreak is the last one before
\* the LongBreak only when n is 1
FirstNext(n, p) ==
  CASE p = Focus -> ShortBreak
    [] p = LongBreak -> Focus
    [] OTHER -> IF n = 1 THEN LongBreak ELSE Focus

CycleResets(log) == {k \in 1..Len(log) : log[k].name = "cycle:reset"}

\* C16: when setPhase(target) returns without raising, from any state, the
\* phase is target, nextPhase is that of target's first occurrence in the
\* sequence, the fresh-cycle flag is set, the owned Timer is a Stopped one of
\* target's duration, no Timer was started, a Running or Paused one was
\* stopped, and one cycle:reset carrying target was emitted, last.
C16_SetPhasePostcondition ==
  [][ lastOp'.name = "setPhase" /\ ~thrown' /\ ~hung'
        => /\ phase' = lastOp'.arg
           /\ nextPhase' = FirstNext(Num(settings.interval), lastOp'.arg)
           /\ timer'.made = [phase |-> phase', nextPhase |-> nextPhase']
           /\ gen'.i = IF lastOp'.arg = LongBreak THEN Num(settings.interval)
                       ELSE 0
           /\ startOfCycle'
           /\ timer'.state = Stopped
           /\ IsNull(timer'.remaining)
           /\ timer'.duration
                = Sec((MinutesOf(settings, lastOp'.arg) * 60) \div 100)
           /\ sched' = {}
           /\ old'.state \in {"undefined", Stopped}
           /\ Names(timerLog') = IF timer.state = Stopped THEN << >>
                                 ELSE <<"stop", "change">>
           /\ Cardinality(CycleResets(seqLog')) = 1
           /\ Len(seqLog') = Len(timerLog') + 1
           /\ seqLog'[Len(seqLog')].name = "cycle:reset"
           /\ seqLog'[Len(seqLog')].phase = lastOp'.arg
           /\ outLog' = seqLog' ]_vars

\* setPhase(ShortBreak) has stopped a live Timer of a later round and placed
\* the sequencer at the first ShortBreak, which a Focus follows
C16_Witness ==
  /\ lastOp = Op("setPhase", ShortBreak)
  /\ settings.interval = Some(2)
  /\ phase = ShortBreak
  /\ nextPhase = Focus
  /\ startOfCycle
  /\ Names(timerLog) = <<"stop", "change">>
  /\ timerLog[1].made = [phase |-> ShortBreak, nextPhase |-> LongBreak]
  /\ timer.state = Stopped

\* C17: when the owned Timer has run and has expired or been stopped, the
\* start() that follows runs the phase that nextPhase named before the call,
\* in a new Timer of that phase's duration, whatever setPhase, start, pause,
\* resume, stop and reset calls came before.
C17_StartRunsNextPhase ==
  [][ lastOp'.name = "start" /\ cyc.stage \in {"expired", "stopped"}
        => /\ timer.state = Stopped
           /\ ~startOfCycle
           /\ phase' = nextPhase
           /\ timer'.made.phase = nextPhase
           /\ timer'.state = Running
           /\ timer'.duration = Sec((MinutesOf(settings, nextPhase) * 60) \div 100)
           /\ timer'.remaining = Some(timer'.duration)
           /\ Names(seqLog') = <<"timer:start", "timer:change">>
           /\ seqLog'[1].phase = nextPhase ]_vars

\* C18: with a long-break interval that is absent, zero or negative no
\* LongBreak is ever generated: the phase is Focus or ShortBreak, nextPhase is
\* never LongBreak, and the setter, called with Focus or ShortBreak, returns.
C18_NonPositiveIntervalSkipsLongBreak ==
  ~HasLongBreak(World) =>
    /\ ~hung
    /\ phase \in {Focus, ShortBreak}
    /\ nextPhase \in {Focus, ShortBreak}
    /\ timer.made.phase \in {Focus, ShortBreak}
    /\ old.made.phase # LongBreak

\* the pending callbacks but for their delays
Handles(sch) == {<<e.id, e.kind, e.owner, e.period>> : e \in sch}

\* C19: a firing of the progress callback leaves the Timer's state, remaining
\* and periodStartTime, the pending expiry and the repeating callback itself
\* as they were, and emits tick, and nothing else, with elapsed = duration - r
\* and remaining = r, r being the committed remaining less the time since
\* periodStartTime, which is the duration less the time spent Running.
C19_TickOnlyReports ==
  [][ lastOp'.name = "tickFire"
        => /\ lastOp'.arg = "cur"
           /\ timer.state = Running
           /\ timer' = timer
           /\ old' = old
           /\ Handles(sched') = Handles(sched)
           /\ PendingOf("cur", "timeout")' = PendingOf("cur", "timeout")
           /\ \A e \in PendingOf("cur", "interval")' : e.delay > 0
           /\ phase' = phase
           /\ nextPhase' = nextPhase
           /\ gen' = gen
           /\ startOfCycle' = startOfCycle
           /\ cyc' = cyc
           /\ Names(timerLog') = <<"tick">>
           /\ timerLog'[1].args =
                <<timer.duration
                    - (Num(timer.remaining) - (DateNow - Num(timer.periodStartTime))),
                  Num(timer.remaining) - (DateNow - Num(timer.periodStartTime))>>
           /\ timerLog'[1].args[2] = timer.duration - cyc.ranFor
           /\ Names(outLog') = <<"timer:tick">>
           /\ outLog'[1].args = timerLog'[1].args ]_vars

\* a tick after a pause and a resume reports less than the committed remaining
C19_Witness ==
  /\ lastOp = Op("tickFire", "cur")
  /\ ~IsNull(cyc.resumedAt)
  /\ Num(cyc.resumedAt) > 0
  /\ Len(timerLog) = 1
  /\ timerLog[1].args[2] < Num(timer.remaining)
  /\ Num(timer.remaining) < timer.duration

\* the owned Timer is Stopped, or the last step stopped or expired the Timer
\* that was owned before it
TimerReturned ==
  \/ timer.state = Stopped
  \/ \E k \in 1..Len(timerLog) : timerLog[k].name \in {"stop", "expire"}

=============================================================================
